---------------------------- MODULE Spec2Model ----------------------------
(***************************************************************************)
(* Model of scripts/github_pr_branch_creator.py: GitHubPRBranchCreator     *)
(* mirrors a pull request of a public repository into the mirror           *)
(* organization as two branches (base state, PR state) and a pull request  *)
(* between them.                                                           *)
(*                                                                         *)
(* Text is modelled as sequences of one-character strings where the code   *)
(* looks inside it (the URL, commit SHAs) and as TLA+ strings where the    *)
(* code only concatenates and compares it (names).                         *)
(***************************************************************************)
EXTENDS Integers, Sequences, FiniteSets, TLC

(***************************************************************************)
(* Bounds of the model.                                                    *)
(***************************************************************************)
\* process_pr invocations made one after the other by one operator
MaxRuns == 2
\* f"{target_commit_sha[:8]}" (line 602)
ShortShaLen == 8

(***************************************************************************)
(* Text helpers.                                                           *)
(***************************************************************************)
\* Python None for the optional pinned SHA. The code only tests its
\* truthiness (lines 74, 548, 584, 600), under which None and "" agree.
None == <<>>

Digits == {"0", "1", "2", "3", "4", "5", "6", "7", "8", "9"}
HexChars == Digits \cup {"a", "b", "c", "d", "e", "f"}
Whitespace == {" ", "\t", "\n"}

\* str of a character sequence
RECURSIVE Join(_)
Join(s) == IF s = <<>> THEN "" ELSE Head(s) \o Join(Tail(s))

Drop(s, n) == SubSeq(s, n + 1, Len(s))
Take(s, n) == SubSeq(s, 1, IF n < Len(s) THEN n ELSE Len(s))

StartsWith(s, lit) == Len(s) >= Len(lit) /\ SubSeq(s, 1, Len(lit)) = lit

\* the longest prefix of s made of characters of set C (a greedy C*)
RECURSIVE TakeWhile(_, _)
TakeWhile(s, C) ==
    IF s # <<>> /\ Head(s) \in C THEN <<Head(s)>> \o TakeWhile(Tail(s), C)
    ELSE <<>>

\* the longest prefix of s with no character of set C (a greedy [^C]*)
RECURSIVE TakeUntil(_, _)
TakeUntil(s, C) ==
    IF s # <<>> /\ Head(s) \notin C THEN <<Head(s)>> \o TakeUntil(Tail(s), C)
    ELSE <<>>

\* str.strip() (line 38)
RECURSIVE LStrip(_)
LStrip(s) == IF s # <<>> /\ Head(s) \in Whitespace THEN LStrip(Tail(s)) ELSE s
RECURSIVE RStrip(_)
RStrip(s) ==
    IF s # <<>> /\ s[Len(s)] \in Whitespace THEN RStrip(SubSeq(s, 1, Len(s) - 1))
    ELSE s
Strip(s) == RStrip(LStrip(s))

DigitVal(c) ==
    CASE c = "0" -> 0 [] c = "1" -> 1 [] c = "2" -> 2 [] c = "3" -> 3
      [] c = "4" -> 4 [] c = "5" -> 5 [] c = "6" -> 6 [] c = "7" -> 7
      [] c = "8" -> 8 [] c = "9" -> 9

\* int() of a run of decimal digits
RECURSIVE ParseInt(_)
ParseInt(ds) ==
    IF ds = <<>> THEN 0
    ELSE ParseInt(SubSeq(ds, 1, Len(ds) - 1)) * 10 + DigitVal(ds[Len(ds)])

(***************************************************************************)
(* URL Resolver: _parse_pr_url.                                            *)
(***************************************************************************)
UrlHead == <<"h", "t", "t", "p", "s", ":", "/", "/",
             "g", "i", "t", "h", "u", "b", ".", "c", "o", "m", "/">>
PullSeg == <<"/", "p", "u", "l", "l", "/">>
CommitsSeg == <<"/", "c", "o", "m", "m", "i", "t", "s", "/">>

\* a resolver that takes every string for the pull request 42 of org/widget
ParsePrUrlAcceptsAll(url) ==
    [ok |-> TRUE, owner |-> "org", repo |-> "widget", pr_number |-> 42,
     commit_sha |-> None]

\* re.match of
\*   https://github\.com/([^/]+)/([^/]+)/pull/(\d+)(?:/commits/([a-f0-9]+))?
\* against url.strip(), anchored at the start only. Every quantifier is
\* greedy and is followed by a character outside its class or by the optional
\* group, so the first match the engine finds takes the longest runs.
\* ok = FALSE is the ValueError of line 41.
ParsePrUrl(url) ==
    LET s0      == Strip(url)
        r1      == Drop(s0, Len(UrlHead))
        owner   == TakeUntil(r1, {"/"})
        r2      == Drop(r1, Len(owner) + 1)
        repo    == TakeUntil(r2, {"/"})
        r3      == Drop(r2, Len(repo))
        r4      == Drop(r3, Len(PullSeg))
        num     == TakeWhile(r4, Digits)
        r5      == Drop(r4, Len(num))
        sha     == TakeWhile(Drop(r5, Len(CommitsSeg)), HexChars)
        matched == /\ StartsWith(s0, UrlHead)
                   /\ owner # <<>>
                   /\ StartsWith(Drop(r1, Len(owner)), <<"/">>)
                   /\ repo # <<>>
                   /\ StartsWith(r3, PullSeg)
                   /\ num # <<>>
        pinned  == StartsWith(r5, CommitsSeg) /\ sha # <<>>
    IN  IF matched
        THEN [ok |-> TRUE, owner |-> Join(owner), repo |-> Join(repo),
              pr_number |-> ParseInt(num),
              commit_sha |-> IF pinned THEN sha ELSE None]
        ELSE [ok |-> FALSE, owner |-> "", repo |-> "", pr_number |-> 0,
              commit_sha |-> None]

(***************************************************************************)
(* The upstream world: what the operator may type, what the source         *)
(* repositories hold and what the REST collaborator may answer for the     *)
(* pull request. SHAs are longer than ShortShaLen so that [:8] cuts.       *)
(***************************************************************************)
BaseSha  == <<"b", "a", "5", "e", "0", "0", "0", "0", "0", "1">>
HeadSha  == <<"c", "0", "d", "e", "0", "0", "0", "0", "0", "1">>
HeadSha2 == <<"c", "0", "d", "e", "0", "0", "0", "0", "0", "2">>
CiSha    == <<"c", "1", "c", "1", "0", "0", "0", "0", "0", "1">>
ForkSha  == <<"f", "0", "f", "0", "0", "0", "0", "0", "0", "1">>
\* the first commit of the repository: it holds the workflow files only
RootSha  == <<"0", "0", "0", "0", "0", "0", "0", "0", "0", "1">>

\* the name of the CI-configuration directory (lines 334, 474)
GithubFolder == ".github"

\* A tree is a set of <<top-level name, content>> entries.
BaseTree  == {<<"README", "v1">>, <<GithubFolder, "ci1">>}
HeadTree  == {<<"README", "v2">>, <<GithubFolder, "ci1">>}
HeadTree2 == {<<"README", "v1">>, <<"src", "v1">>}
CiTree    == {<<"README", "v1">>, <<GithubFolder, "ci2">>}
ForkTree  == {<<"README", "v3">>, <<GithubFolder, "ci1">>}
RootTree  == {<<GithubFolder, "ci1">>}

OrgWidget   == [owner |-> "org", name |-> "widget"]
AliceWidget == [owner |-> "alice", name |-> "widget"]

\* the commits a clone of https://github.com/{owner}/{repo}.git holds
\* (branches and tags only: a fork's commits are not in the base repository)
SourceCommits(owner, repo) ==
    IF owner = "org" /\ repo = "widget"
    THEN (BaseSha :> BaseTree) @@ (HeadSha :> HeadTree)
         @@ (HeadSha2 :> HeadTree2) @@ (CiSha :> CiTree)
         @@ (RootSha :> RootTree)
    ELSE IF owner = "alice" /\ repo = "widget"
    THEN (BaseSha :> BaseTree) @@ (ForkSha :> ForkTree)
    ELSE << >>

SourceRepoExists(owner, repo) == SourceCommits(owner, repo) # << >>

\* The JSON of GET /repos/{owner}/{repo}/pulls/{n}, the fields the code reads.
\* head.repo is a sequence of at most one repository: empty is the null the
\* API gives for a deleted fork.
PrInfoAt(base_ref, base_sha, head_sha, head_repo) ==
    [base |-> [ref |-> base_ref, sha |-> base_sha, repo |-> OrgWidget],
     head |-> [sha |-> head_sha, repo |-> head_repo]]

\* a pull request against the commit BaseSha
PrInfo(base_ref, head_sha, head_repo) ==
    PrInfoAt(base_ref, BaseSha, head_sha, head_repo)

NoPrInfo == PrInfo("", None, << >>)

\* what the API may answer for a pull request (its state at fetch time)
PullRequests(owner, repo, pr_number) ==
    IF owner = "org" /\ repo = "widget" /\ pr_number = 42
    THEN {PrInfo("main", HeadSha, <<OrgWidget>>),
          PrInfo("main", CiSha, <<OrgWidget>>),
          PrInfo("main", ForkSha, <<AliceWidget>>),
          PrInfo("main", ForkSha, << >>),
          PrInfo("pr", HeadSha, <<OrgWidget>>),
          PrInfoAt("main", RootSha, HeadSha, <<OrgWidget>>)}
    ELSE {}

Chars42WithoutNumber ==
    <<"o", "r", "g", "/", "w", "i", "d", "g", "e", "t">> \o PullSeg
Chars42 == Chars42WithoutNumber \o <<"4", "2">>
\* the strings the operator may enter at the prompt (line 669)
Urls == {UrlHead \o Chars42,
         UrlHead \o Chars42 \o CommitsSeg \o HeadSha2,
         UrlHead \o <<"o", "r", "g", "/", "w", "i", "d", "g", "e", "t",
                      "/", "i", "s", "s", "u", "e", "s", "/", "4", "2">>,
         UrlHead \o Chars42WithoutNumber}

HttpHead == <<"h", "t", "t", "p", ":", "/", "/", "g", "i", "t", "h", "u", "b", ".", "c", "o", "m", "/">>
UrlHeads == {UrlHead, HttpHead}
UrlOwners == {<<"o", "r", "g", "/", "w", "i", "d", "g", "e", "t">>,
              <<"o", "r", "g">>}
UrlKinds == {PullSeg, <<"/", "i", "s", "s", "u", "e", "s", "/">>,
             <<"/", "p", "u", "l", "l">>}
UrlNumbers == {<<"4", "2">>, <<"0">>, << >>}
UrlTails == {<< >>, <<"x">>, <<"/", "f", "i", "l", "e", "s">>,
             CommitsSeg, CommitsSeg \o HeadSha2,
             CommitsSeg \o <<"X", "Y", "Z">>,
             CommitsSeg \o <<"c", "0", "d", "e", "g", "1">>,
             CommitsSeg \o <<"c", "0", "d", "e", "/", "x">>}

\* what the operator may type at the prompt of line 669
UrlInputs ==
    {h \o o \o k \o n \o t :
        h \in UrlHeads, o \in UrlOwners, k \in UrlKinds, n \in UrlNumbers,
        t \in UrlTails}

\* URLs of pull requests in repositories whose owner or name holds a hyphen
MirrorOwners == {<<"a">>, <<"a", "-", "b">>}
MirrorRepos == {<<"c">>, <<"b">>, <<"b", "-", "c">>}
MirrorUrls ==
    {UrlHead \o o \o <<"/">> \o r \o PullSeg \o <<"1">> :
        o \in MirrorOwners, r \in MirrorRepos}

\* _parse_pr_url of every string entered, computed once per string
Parsed == [url \in Urls \cup UrlInputs \cup MirrorUrls |-> ParsePrUrl(url)]

(***************************************************************************)
(* The version-control collaborator.                                       *)
(***************************************************************************)
\* A commit is identified by its content: tree, parents, message, timestamp
\* (the author is the fixed bot identity of lines 259-260, 446-447).
Commit(tree, parents, message, stamp) ==
    [tree |-> tree, parents |-> parents, message |-> message, stamp |-> stamp]

RECURSIVE IsAncestor(_, _)
IsAncestor(a, c) ==
    \/ a = c
    \/ \E i \in 1..Len(c.parents) : IsAncestor(a, c.parents[i])

\* an extraction after which the .github folder is left in the work tree
KeepGithubFolder(tree) == tree

\* shutil.rmtree of the .github folder (lines 332-339, 472-480)
RemoveGithubFolder(tree) == {e \in tree : e[1] # GithubFolder}

\* the steps of a materialization, in the order the code runs them
OrphanSteps == <<"clone", "init", "archive", "extract", "add", "commit",
                 "remote", "push">>
FromBaseSteps == <<"clone", "checkout", "checkout_b", "clone_original",
                   "archive", "extract", "add", "commit", "push">>
NoFail == "none"

\* a materializer that looks at no return code but the one of the push
FirstFailureOnlyAtPush(order, ok) ==
    IF ok[order[Len(order)]] THEN 0 ELSE Len(order)

\* the index of the first step that fails, 0 when none does: every step is
\* followed by `if returncode != 0: return False`
FirstFailure(order, ok) ==
    LET bad == {i \in 1..Len(order) : ~ok[order[i]]}
    IN  IF bad = {} THEN 0 ELSE CHOOSE i \in bad : \A j \in bad : i <= j

StepsRun(order, ok) ==
    IF FirstFailure(order, ok) = 0 THEN order
    ELSE SubSeq(order, 1, FirstFailure(order, ok))

(***************************************************************************)
(* State.                                                                  *)
(***************************************************************************)
VARIABLES
    repos,      \* the mirror organization: names of the repositories in it
    branches,   \* <<mirror repository, branch>> -> tip commit
    pulls,      \* the pull requests created in the mirror organization
    inv,        \* per invocation of process_pr: its locals and position
    runs,       \* invocations started so far
    prev        \* what the previous invocation fetched, returned and left

vars == <<repos, branches, pulls, inv, runs, prev>>

\* the processes that may call process_pr
Procs == {"A", "B"}

HasCommit(owner, repo, commit_sha) ==
    commit_sha \in DOMAIN SourceCommits(owner, repo)

\* git archive | tar -x, then the removal of the .github folder: the content
\* of the work tree that is staged
NewTree(owner, repo, commit_sha) ==
    IF HasCommit(owner, repo, commit_sha)
    THEN RemoveGithubFolder(SourceCommits(owner, repo)[commit_sha])
    ELSE {}

BranchKey(target_repo, branch_name) == <<target_repo, branch_name>>

\* git push origin <ref> without --force (lines 368, 384, 520): the remote
\* takes a new ref, and an existing one only when the push is a fast-forward
PushAccepted(target_repo, branch_name, commit) ==
    /\ target_repo \in repos
    /\ BranchKey(target_repo, branch_name) \in DOMAIN branches
          => IsAncestor(branches[BranchKey(target_repo, branch_name)], commit)

\* a push that reports success and leaves the remote as it was
PushedNowhere(target_repo, branch_name, commit) == branches

Pushed(target_repo, branch_name, commit) ==
    (BranchKey(target_repo, branch_name) :> commit) @@ branches

NoCommit == Commit({}, << >>, "", 0)
NoMat == [kind |-> "none"]

\* lines 501-503: in a fresh repository a commit of an empty index reports
\* nothing to commit and exits 1, which is a failure here
OrphanCommitOk(tree) == tree # {}

\* git commit -m "[Orphan] Commit <sha>" in a fresh repository (lines 493-499)
OrphanCommit(tree, commit_sha, stamp) ==
    Commit(tree, << >>, "[Orphan] Commit " \o Join(commit_sha), stamp)

\* a commit of the PR content that has no parent
PrChangesCommitWithoutParent(tree, base_tip, commit_sha, stamp) ==
    Commit(tree, << >>, "[PR Changes] Commit " \o Join(commit_sha), stamp)

\* a commit that lays the PR content over the files of the base branch
PrChangesCommitOverBase(tree, base_tip, commit_sha, stamp) ==
    Commit(tree \cup base_tip.tree, <<base_tip>>,
           "[PR Changes] Commit " \o Join(commit_sha), stamp)

\* git commit -m "[PR Changes] Commit <sha>" on the branch made from the
\* base branch (lines 352-359)
PrChangesCommit(tree, base_tip, commit_sha, stamp) ==
    Commit(tree, <<base_tip>>, "[PR Changes] Commit " \o Join(commit_sha), stamp)

(***************************************************************************)
(* Branch Materializer, orphan variant: _create_orphan_branch_with_commit. *)
(* fail names the step an outside failure (network, disk) hits, if any;    *)
(* stamp is the time of the commit.                                        *)
(***************************************************************************)
CreateOrphanBranchWithCommit(owner, repo, target_repo, branch_name, commit_sha, fail, stamp) ==
    LET tree   == NewTree(owner, repo, commit_sha)
        commit == OrphanCommit(tree, commit_sha, stamp)
        ok     == [s \in {OrphanSteps[i] : i \in 1..Len(OrphanSteps)} |->
                     /\ s # fail
                     /\ CASE s = "clone"   -> SourceRepoExists(owner, repo)
                          [] s = "archive" -> HasCommit(owner, repo, commit_sha)
                          [] s = "commit"  -> OrphanCommitOk(tree)
                          [] s = "push"    ->
                                PushAccepted(target_repo, branch_name, commit)
                          [] OTHER         -> TRUE]
        done   == FirstFailure(OrphanSteps, ok) = 0
    IN  [kind |-> "orphan", owner |-> owner, repo |-> repo,
         target_repo |-> target_repo, branch_name |-> branch_name,
         commit_sha |-> commit_sha, base_branch |-> "",
         ok |-> done, steps |-> StepsRun(OrphanSteps, ok),
         noop |-> FALSE, base_tip |-> << >>,
         commit |-> IF done THEN commit ELSE NoCommit,
         branches |-> IF done THEN Pushed(target_repo, branch_name, commit)
                      ELSE branches]

(***************************************************************************)
(* Branch Materializer, fromBase variant: _create_branch_from_base.        *)
(***************************************************************************)
\* git commit exits non-zero with "nothing to commit" when the staged tree
\* is the tree of the branch's tip (line 363)
NothingToCommit(tree, base_tip) == tree = base_tip.tree

\* a commit step for which nothing to commit is a failure, as in the orphan
\* variant
FromBaseCommitFailsOnNothing(nothing) == ~nothing

\* lines 361-378: a commit that reports nothing to commit is no failure, the
\* branch is pushed as it is
FromBaseCommitOk(nothing) == TRUE

CreateBranchFromBase(owner, repo, target_repo, branch_name, commit_sha, base_branch, fail, stamp) ==
    LET base_key    == BranchKey(target_repo, base_branch)
        base_exists == target_repo \in repos /\ base_key \in DOMAIN branches
        base_tip    == IF base_exists THEN branches[base_key] ELSE NoCommit
        tree        == NewTree(owner, repo, commit_sha)
        identical   == NothingToCommit(tree, base_tip)
        local_tip   == IF identical THEN base_tip
                       ELSE PrChangesCommit(tree, base_tip, commit_sha, stamp)
        ok == [s \in {FromBaseSteps[i] : i \in 1..Len(FromBaseSteps)} |->
                 /\ s # fail
                 /\ CASE s = "clone"          -> target_repo \in repos
                      [] s = "checkout"       -> base_exists
                      \* git checkout -b of a branch the clone already has
                      [] s = "checkout_b"     -> branch_name # base_branch
                      [] s = "clone_original" -> SourceRepoExists(owner, repo)
                      [] s = "archive"        ->
                            HasCommit(owner, repo, commit_sha)
                      [] s = "commit"         -> FromBaseCommitOk(identical)
                      [] s = "push"           ->
                            PushAccepted(target_repo, branch_name, local_tip)
                      [] OTHER                -> TRUE]
        done == FirstFailure(FromBaseSteps, ok) = 0
        ran  == StepsRun(FromBaseSteps, ok)
    IN  [kind |-> "fromBase", owner |-> owner, repo |-> repo,
         target_repo |-> target_repo, branch_name |-> branch_name,
         commit_sha |-> commit_sha, base_branch |-> base_branch,
         ok |-> done, steps |-> ran,
         noop |-> identical /\ fail # "commit"
                     /\ \E i \in 1..Len(ran) : ran[i] = "commit",
         base_tip |-> IF base_exists THEN <<base_tip>> ELSE << >>,
         commit |-> IF done THEN local_tip ELSE NoCommit,
         branches |-> IF done THEN Pushed(target_repo, branch_name, local_tip)
                      ELSE branches]

(***************************************************************************)
(* Leaf operations of GitHubPRBranchCreator.                               *)
(***************************************************************************)
\* f"{owner}-{repo}" (lines 46, 111, 555)
TargetRepoName(owner, repo) == owner \o "-" \o repo

\* check_repo_exists: status 200, and False on any other answer or on a
\* RequestException. net is whether the GET got its true answer.
CheckRepoExists(owner, repo, net) ==
    net /\ TargetRepoName(owner, repo) \in repos

\* _create_repository / _create_empty_repository: True only on status 201,
\* which the organization gives when the name is free
CreateRepositoryOk(owner, repo, net) ==
    net /\ TargetRepoName(owner, repo) \notin repos

\* _check_branch_exists: status 200, False otherwise
CheckBranchExists(target_repo, branch_name, net) ==
    /\ net
    /\ target_repo \in repos
    /\ BranchKey(target_repo, branch_name) \in DOMAIN branches

FullName(r) == r.owner \o "/" \o r.name

\* a locator that never looks at the head repository nor at the pinned SHA
GetCommitRepoInfoAlwaysBase(pr_info, target_commit_sha) ==
    IF pr_info.head.repo = << >>
    THEN [ok |-> FALSE, owner |-> "", repo |-> "", sha |-> None]
    ELSE [ok |-> TRUE, owner |-> pr_info.base.repo.owner,
          repo |-> pr_info.base.repo.name, sha |-> pr_info.head.sha]

\* _get_commit_repo_info. ok = FALSE is the TypeError of subscripting the
\* null head repository (line 80).
GetCommitRepoInfo(pr_info, target_commit_sha) ==
    LET commit_sha == IF target_commit_sha # None THEN target_commit_sha
                      ELSE pr_info.head.sha
        base_repo  == pr_info.base.repo
    IN  IF pr_info.head.repo = << >>
        THEN [ok |-> FALSE, owner |-> "", repo |-> "", sha |-> None]
        ELSE IF FullName(pr_info.head.repo[1]) # FullName(base_repo)
        THEN [ok |-> TRUE, owner |-> pr_info.head.repo[1].owner,
              repo |-> pr_info.head.repo[1].name, sha |-> commit_sha]
        ELSE [ok |-> TRUE, owner |-> base_repo.owner,
              repo |-> base_repo.name, sha |-> commit_sha]

\* a PR-state branch name that leaves the pinned SHA out
PrBranchNameUnpinned(pr_number, target_commit_sha) ==
    "pr-" \o ToString(pr_number)

\* lines 598-602
MainBranchName(pr_info, pr_number) ==
    pr_info.base.ref \o "-" \o ToString(pr_number)

PrBranchName(pr_number, target_commit_sha) ==
    IF target_commit_sha # None
    THEN "pr-" \o ToString(pr_number) \o "-"
            \o Join(Take(target_commit_sha, ShortShaLen))
    ELSE "pr-" \o ToString(pr_number)

\* the JSON body of the create-pull-request call (lines 191-196), the fields
\* that decide which pull request it is
PullRequestData(target_repo, head_branch, base_branch) ==
    [repo |-> target_repo, head |-> head_branch, base |-> base_branch]

NoRequest == [sent |-> FALSE]

PullRequestExists(data) == \E i \in 1..Len(pulls) : pulls[i] = data

\* the status of POST /repos/{org}/{target_repo}/pulls: 201 when the pull
\* request is created, 422 "already exists" for a second one between the
\* same branches, 422 with another message when it cannot be made, and
\* "error" for every other answer or a RequestException
CreatePullRequestStatus(data, net) ==
    IF ~net THEN "error"
    ELSE IF PullRequestExists(data) THEN "422 already exists"
    ELSE IF \/ data.repo \notin repos
            \/ BranchKey(data.repo, data.head) \notin DOMAIN branches
            \/ BranchKey(data.repo, data.base) \notin DOMAIN branches
            \/ data.head = data.base
            \/ branches[BranchKey(data.repo, data.head)]
                 = branches[BranchKey(data.repo, data.base)]
         THEN "422"
    ELSE "201"

UpperCase == <<"A", "B", "C", "D", "E", "F", "G", "H", "I", "J", "K", "L", "M", "N", "O", "P", "Q", "R", "S", "T", "U", "V", "W", "X", "Y", "Z">>
LowerCase == <<"a", "b", "c", "d", "e", "f", "g", "h", "i", "j", "k", "l", "m", "n", "o", "p", "q", "r", "s", "t", "u", "v", "w", "x", "y", "z">>

\* str.lower() (line 211)
Lower(s) ==
    [i \in 1..Len(s) |->
        IF \E k \in 1..Len(UpperCase) : UpperCase[k] = s[i]
        THEN LowerCase[CHOOSE k \in 1..Len(UpperCase) : UpperCase[k] = s[i]]
        ELSE s[i]]

\* `sub in s` (line 211)
Contains(s, sub) ==
    \E i \in 0..(Len(s) - Len(sub)) : SubSeq(s, i + 1, i + Len(sub)) = sub

AlreadyExists == <<"a", "l", "r", "e", "a", "d", "y", " ", "e", "x", "i", "s", "t", "s">>

\* what the API may put in the "message" field of its answer
MsgAlreadyExists == <<"A", " ", "p", "u", "l", "l", " ", "r", "e", "q", "u", "e", "s", "t", " ", "a", "l", "r", "e", "a", "d", "y", " ", "e", "x", "i", "s", "t", "s">>
MsgAlreadyExistsCaps == <<"P", "u", "l", "l", " ", "R", "e", "q", "u", "e", "s", "t", " ", "A", "l", "r", "e", "a", "d", "y", " ", "E", "x", "i", "s", "t", "s">>
MsgValidationFailed == <<"V", "a", "l", "i", "d", "a", "t", "i", "o", "n", " ", "F", "a", "i", "l", "e", "d">>
MsgNone == << >>

\* the response to the POST, the fields the code reads; status_code 0 is
\* the RequestException of line 223
Response(status_code, message) ==
    [status_code |-> status_code, message |-> message]

\* the responses the API may give for each outcome. For a pull request that
\* exists the text may be in "message" or, with "Validation Failed" as the
\* message, in the "errors" list, which the code does not read.
CreatePullRequestResponses(status) ==
    CASE status = "201" -> {Response(201, MsgNone)}
      [] status = "422 already exists" ->
            {Response(422, MsgAlreadyExists), Response(422, MsgAlreadyExistsCaps),
             Response(422, MsgValidationFailed)}
      [] status = "422" -> {Response(422, MsgValidationFailed)}
      [] OTHER -> {Response(0, MsgNone), Response(403, MsgNone),
                   Response(500, MsgNone)}

\* an opener that takes every 422 for "already exists"
CreatePullRequestOkOnEvery422(response) ==
    response.status_code \in {201, 422}

\* _create_pull_request's return value (lines 204-225)
CreatePullRequestOk(response) ==
    IF response.status_code = 201 THEN TRUE
    ELSE IF response.status_code = 422
    THEN Contains(Lower(response.message), AlreadyExists)
    ELSE FALSE

(***************************************************************************)
(* Mirror Orchestrator: process_pr, one action per step.                   *)
(***************************************************************************)
IdleInv ==
    [pc |-> "Idle", url |-> << >>, owner |-> "", repo |-> "", pr_number |-> 0,
     target_commit_sha |-> None, target_repo_name |-> "",
     pr_info |-> NoPrInfo, commit_owner |-> "", commit_repo |-> "",
     pr_sha |-> None, main_sha |-> None, main_branch_name |-> "",
     pr_branch_name |-> "", success |-> FALSE, result |-> FALSE,
     trace |-> << >>, mat |-> NoMat, request |-> NoRequest,
     \* what an observer of the run records, no local of the code:
     \* how each branch-ensure step ended ("none", "exists", "created",
     \* "failed") and the step whose failure ended the run
     base_step |-> "none", pr_step |-> "none", failed |-> ""]

NoPrev == [valid |-> FALSE]

Returned(p) == inv[p].pc \in {"Done", "Error"}

\* one step of invocation p: its locals become r, with the step appended to
\* the steps this invocation has run and the last materialization forgotten
\* unless the step is one
Step(p, name, r) ==
    inv' = [inv EXCEPT ![p] =
              [r EXCEPT !.trace = Append(inv[p].trace, name),
                        !.mat = IF name \in {"CreateBaseBranch", "CreatePRBranch"}
                                THEN r.mat ELSE NoMat]]

\* `return False` of lines 563 and 644-652
Fail(p, name) ==
    Step(p, name, [inv[p] EXCEPT !.pc = "Error", !.result = FALSE,
                                 !.failed = name])

\* main(): the operator enters a URL and process_pr is called with it
Invoke(p, url) ==
    /\ inv[p].pc \in {"Idle", "Done", "Error"}
    /\ runs < MaxRuns
    /\ runs' = runs + 1
    /\ prev' = IF Returned(p) /\ inv[p].result
               THEN [valid |-> TRUE, url |-> inv[p].url,
                     pr_info |-> inv[p].pr_info,
                     branches |-> branches, pulls |-> pulls]
               ELSE NoPrev
    /\ inv' = [inv EXCEPT ![p] = [IdleInv EXCEPT !.pc = "ParseURL", !.url = url]]
    /\ UNCHANGED <<repos, branches, pulls>>

\* Step 1, lines 545-551
ParseURL(p) ==
    /\ inv[p].pc = "ParseURL"
    /\ LET m == Parsed[inv[p].url]
       IN  IF m.ok
           THEN Step(p, "ParseURL",
                     [inv[p] EXCEPT !.pc = "CheckRepo",
                                    !.owner = m.owner, !.repo = m.repo,
                                    !.pr_number = m.pr_number,
                                    !.target_commit_sha = m.commit_sha,
                                    !.target_repo_name =
                                        TargetRepoName(m.owner, m.repo)])
           ELSE Fail(p, "ParseURL")
    /\ UNCHANGED <<repos, branches, pulls, runs, prev>>

\* where process_pr goes after check_repo_exists (lines 558-566)
AfterCheckRepo(exists) == IF exists THEN "FetchPRInfo" ELSE "CreateRepo"

\* Step 2, lines 553-558
CheckRepo(p, net) ==
    /\ inv[p].pc = "CheckRepo"
    /\ Step(p, "CheckRepo",
            [inv[p] EXCEPT !.pc =
                AfterCheckRepo(CheckRepoExists(inv[p].owner, inv[p].repo, net))])
    /\ UNCHANGED <<repos, branches, pulls, runs, prev>>

\* a run that goes on after a repository creation that failed
AfterCreateRepoIgnoresFailure(created) == "FetchPRInfo"

\* a run that checks for the repository again when its creation failed
AfterCreateRepoRetries(created) == IF created THEN "FetchPRInfo" ELSE "CheckRepo"

\* where process_pr goes after _create_repository (lines 561-564)
AfterCreateRepo(created) == IF created THEN "FetchPRInfo" ELSE "Error"

\* Step 2, lines 559-564
CreateRepo(p, net) ==
    /\ inv[p].pc = "CreateRepo"
    /\ LET created == CreateRepositoryOk(inv[p].owner, inv[p].repo, net)
       IN  /\ repos' = IF created THEN repos \cup {inv[p].target_repo_name}
                       ELSE repos
           /\ Step(p, "CreateRepo",
                   [inv[p] EXCEPT !.pc = AfterCreateRepo(created),
                                  !.failed = IF created THEN ""
                                             ELSE "CreateRepo"])
    /\ UNCHANGED <<branches, pulls, runs, prev>>

\* Step 3, lines 568-578: _get_pr_info, whose raise_for_status or
\* RequestException ends the run (lines 647-649)
FetchPRInfo(p) ==
    /\ inv[p].pc = "FetchPRInfo"
    /\ \/ \E info \in PullRequests(inv[p].owner, inv[p].repo, inv[p].pr_number) :
             Step(p, "FetchPRInfo",
                  [inv[p] EXCEPT !.pc = "ResolveCommits", !.pr_info = info])
       \/ Fail(p, "FetchPRInfo")
    /\ UNCHANGED <<repos, branches, pulls, runs, prev>>

\* Step 4, lines 580-607
ResolveCommits(p) ==
    /\ inv[p].pc = "ResolveCommits"
    /\ LET loc == GetCommitRepoInfo(inv[p].pr_info, inv[p].target_commit_sha)
       IN  IF loc.ok
           THEN Step(p, "ResolveCommits",
                     [inv[p] EXCEPT
                        !.pc = "CheckBaseBranch",
                        !.commit_owner = loc.owner,
                        !.commit_repo = loc.repo,
                        !.pr_sha = loc.sha,
                        !.main_sha = inv[p].pr_info.base.sha,
                        !.main_branch_name =
                            MainBranchName(inv[p].pr_info, inv[p].pr_number),
                        !.pr_branch_name =
                            PrBranchName(inv[p].pr_number,
                                         inv[p].target_commit_sha),
                        !.success = TRUE])
           ELSE Fail(p, "ResolveCommits")
    /\ UNCHANGED <<repos, branches, pulls, runs, prev>>

\* `if not self._create_...(...): success = False` (lines 615-616, 628-629)
SuccessAfter(success, created) == IF ~created THEN FALSE ELSE success

\* a run that returns as soon as the base branch cannot be made
AfterBaseBranchReturnsOnFailure(ok) == IF ok THEN "CheckPRBranch" ELSE "Done"

\* where process_pr goes after the base-branch step (lines 609-622)
AfterBaseBranch(ok) == "CheckPRBranch"

\* a run that opens the pull request whatever the branch steps gave
AfterPRBranchAlwaysOpens(success) == "OpenPullRequest"

\* where process_pr goes after the PR-branch step (lines 634-642)
AfterPRBranch(success) == IF success THEN "OpenPullRequest" ELSE "Done"

\* Step 5, lines 609-612
CheckBaseBranch(p, net) ==
    /\ inv[p].pc = "CheckBaseBranch"
    /\ IF CheckBranchExists(inv[p].target_repo_name, inv[p].main_branch_name, net)
       THEN Step(p, "CheckBaseBranch",
                 [inv[p] EXCEPT !.pc = AfterBaseBranch(TRUE),
                                !.base_step = "exists"])
       ELSE Step(p, "CheckBaseBranch",
                 [inv[p] EXCEPT !.pc = "CreateBaseBranch"])
    /\ UNCHANGED <<repos, branches, pulls, runs, prev>>

\* the arguments process_pr gives _create_orphan_branch_with_commit (line 615)
OrphanCall(p, fail, stamp) ==
    CreateOrphanBranchWithCommit(inv[p].owner, inv[p].repo,
                                 inv[p].target_repo_name,
                                 inv[p].main_branch_name, inv[p].main_sha,
                                 fail, stamp)

\* the arguments process_pr gives _create_branch_from_base (line 628)
FromBaseCall(p, fail, stamp) ==
    CreateBranchFromBase(inv[p].owner, inv[p].repo, inv[p].target_repo_name,
                         inv[p].pr_branch_name, inv[p].pr_sha,
                         inv[p].main_branch_name, fail, stamp)

\* what an invocation keeps of a materialization: all but the remote's state
MatRecord(m) == [f \in DOMAIN m \ {"branches"} |-> m[f]]

\* Step 5, lines 613-619
CreateBaseBranch(p, fail, stamp) ==
    /\ inv[p].pc = "CreateBaseBranch"
    /\ LET m == OrphanCall(p, fail, stamp)
       IN  /\ branches' = m.branches
           /\ Step(p, "CreateBaseBranch",
                   [inv[p] EXCEPT
                      !.pc = AfterBaseBranch(m.ok),
                      !.success = SuccessAfter(inv[p].success, m.ok),
                      !.base_step = IF m.ok THEN "created" ELSE "failed",
                      !.mat = MatRecord(m)])
    /\ UNCHANGED <<repos, pulls, runs, prev>>

\* Step 5, lines 621-624
CheckPRBranch(p, net) ==
    /\ inv[p].pc = "CheckPRBranch"
    /\ IF CheckBranchExists(inv[p].target_repo_name, inv[p].pr_branch_name, net)
       THEN Step(p, "CheckPRBranch",
                 [inv[p] EXCEPT !.pc = AfterPRBranch(inv[p].success),
                                !.result = inv[p].success,
                                !.pr_step = "exists"])
       ELSE Step(p, "CheckPRBranch",
                 [inv[p] EXCEPT !.pc = "CreatePRBranch"])
    /\ UNCHANGED <<repos, branches, pulls, runs, prev>>

\* Step 5, lines 625-632
CreatePRBranch(p, fail, stamp) ==
    /\ inv[p].pc = "CreatePRBranch"
    /\ LET m  == FromBaseCall(p, fail, stamp)
           ok == SuccessAfter(inv[p].success, m.ok)
       IN  /\ branches' = m.branches
           /\ Step(p, "CreatePRBranch",
                   [inv[p] EXCEPT
                      !.pc = AfterPRBranch(ok),
                      !.success = ok,
                      !.result = ok,
                      !.pr_step = IF m.ok THEN "created" ELSE "failed",
                      !.mat = MatRecord(m)])
    /\ UNCHANGED <<repos, pulls, runs, prev>>

\* a result that a failed create-pull-request call turns into failure
ResultFlippedByPullRequest(success, created) == success /\ created

\* `return success` after the create-pull-request step (lines 637-642)
ResultAfterPullRequest(success, created) == success

\* Step 6, lines 634-642
OpenPullRequest(p, net) ==
    /\ inv[p].pc = "OpenPullRequest"
    /\ LET data   == PullRequestData(inv[p].target_repo_name,
                                     inv[p].pr_branch_name,
                                     inv[p].main_branch_name)
           status == CreatePullRequestStatus(data, net)
       IN  /\ pulls' = IF status = "201" THEN Append(pulls, data) ELSE pulls
           /\ \E response \in CreatePullRequestResponses(status) :
                 Step(p, "OpenPullRequest",
                      [inv[p] EXCEPT
                         !.pc = "Done",
                         !.result = ResultAfterPullRequest(
                                        inv[p].success,
                                        CreatePullRequestOk(response)),
                         !.request = [sent |-> TRUE, data |-> data,
                                      status |-> status,
                                      response |-> response,
                                      ok |-> CreatePullRequestOk(response)]])
    /\ UNCHANGED <<repos, branches, runs, prev>>

(***************************************************************************)
(* Specification: one operator running process_pr MaxRuns times in a row.  *)
(***************************************************************************)
FailPoints(order) == {order[i] : i \in 1..Len(order)} \cup {NoFail}

Init ==
    /\ repos = {}
    /\ branches = << >>
    /\ pulls = << >>
    /\ inv = [p \in Procs |-> IdleInv]
    /\ runs = 0
    /\ prev = NoPrev

\* The time of a commit. Invocations made one after the other commit at
\* different times: each clones at least one repository before it commits,
\* and git timestamps tick every second.
Now == runs

Run(p) ==
    \/ \E url \in Urls : Invoke(p, url)
    \/ ParseURL(p)
    \/ \E net \in BOOLEAN : CheckRepo(p, net)
    \/ \E net \in BOOLEAN : CreateRepo(p, net)
    \/ FetchPRInfo(p)
    \/ ResolveCommits(p)
    \/ \E net \in BOOLEAN : CheckBaseBranch(p, net)
    \/ \E fail \in FailPoints(OrphanSteps) : CreateBaseBranch(p, fail, Now)
    \/ \E net \in BOOLEAN : CheckPRBranch(p, net)
    \/ \E fail \in FailPoints(FromBaseSteps) : CreatePRBranch(p, fail, Now)
    \/ \E net \in BOOLEAN : OpenPullRequest(p, net)

Next == Run("A")

Spec == Init /\ [][Next]_vars

(***************************************************************************)
(* Specification of one run with its progress: the operator starts         *)
(* process_pr once, in a mirror organization as earlier runs may have left *)
(* it, and every call the run makes returns.                               *)
(***************************************************************************)
\* invocation p is inside process_pr
Running(p) == inv[p].pc \notin {"Idle", "Done", "Error"}

\* the branches an earlier run for the pull request 42 of org/widget made
MirroredBase == OrphanCommit(NewTree("org", "widget", BaseSha), BaseSha, 0)
MirroredBranches ==
    (BranchKey("org-widget", "main-42") :> MirroredBase)
    @@ (BranchKey("org-widget", "pr-42")
          :> PrChangesCommit(NewTree("org", "widget", HeadSha), MirroredBase,
                             HeadSha, 0))

\* the mirror organization the run finds: empty, with the mirror repository
\* only, or with the repository, both branches and the pull request
FairInit ==
    /\ \E m \in {[repos |-> {}, branches |-> << >>, pulls |-> << >>],
                  [repos |-> {"org-widget"}, branches |-> << >>,
                   pulls |-> << >>],
                  [repos |-> {"org-widget"}, branches |-> MirroredBranches,
                   pulls |-> <<PullRequestData("org-widget", "pr-42",
                                               "main-42")>>]} :
          /\ repos = m.repos
          /\ branches = m.branches
          /\ pulls = m.pulls
    /\ inv = [p \in Procs |-> IdleInv]
    /\ runs = 0
    /\ prev = NoPrev

\* the next step of a run that is under way
Advance(p) ==
    \/ ParseURL(p)
    \/ \E net \in BOOLEAN : CheckRepo(p, net)
    \/ \E net \in BOOLEAN : CreateRepo(p, net)
    \/ FetchPRInfo(p)
    \/ ResolveCommits(p)
    \/ \E net \in BOOLEAN : CheckBaseBranch(p, net)
    \/ \E fail \in FailPoints(OrphanSteps) : CreateBaseBranch(p, fail, 1)
    \/ \E net \in BOOLEAN : CheckPRBranch(p, net)
    \/ \E fail \in FailPoints(FromBaseSteps) : CreatePRBranch(p, fail, 1)
    \/ \E net \in BOOLEAN : OpenPullRequest(p, net)

FairNext ==
    \/ \E url \in Urls : inv["A"].pc = "Idle" /\ Invoke("A", url)
    \/ Advance("A")

\* Every request and every subprocess of a run returns (there is no timeout
\* layer: the requests calls of lines 50, 58, 137, 162, 202 and the
\* subprocess.run calls block until they do), so a run that is under way
\* takes its next step.
FairSpec == FairInit /\ [][FairNext]_vars /\ WF_vars(Advance("A"))

(***************************************************************************)
(* Specification of two operators who start process_pr at about the same   *)
(* time, each once, with no outside failure: every request gets its true   *)
(* answer and no subprocess fails but for what it finds.                   *)
(***************************************************************************)
\* the second in which a commit is made: the two runs may commit within the
\* same second or not
RaceStamps == {1, 2}

\* the mirror organization the two runs find: empty, or with the mirror
\* repository left by an earlier run
RaceInit ==
    /\ repos \in {{}, {TargetRepoName("org", "widget")}}
    /\ branches = << >>
    /\ pulls = << >>
    /\ inv = [p \in Procs |-> IdleInv]
    /\ runs = 0
    /\ prev = NoPrev

RaceRun(p) ==
    \/ \E url \in Urls : inv[p].pc = "Idle" /\ Invoke(p, url)
    \/ ParseURL(p)
    \/ CheckRepo(p, TRUE)
    \/ CreateRepo(p, TRUE)
    \/ FetchPRInfo(p)
    \/ ResolveCommits(p)
    \/ CheckBaseBranch(p, TRUE)
    \/ \E stamp \in RaceStamps : CreateBaseBranch(p, NoFail, stamp)
    \/ CheckPRBranch(p, TRUE)
    \/ \E stamp \in RaceStamps : CreatePRBranch(p, NoFail, stamp)
    \/ OpenPullRequest(p, TRUE)

RaceNext == RaceRun("A") \/ RaceRun("B")

RaceSpec == RaceInit /\ [][RaceNext]_vars

(***************************************************************************)
(* Specification of the URL Resolver alone: process_pr has just been       *)
(* called with one of a wider set of strings, and parses it.               *)
(***************************************************************************)
\* the state in which process_pr(url) starts, in a fresh mirror organization
ParseInit ==
    /\ repos = {}
    /\ branches = << >>
    /\ pulls = << >>
    /\ \E url \in UrlInputs :
          inv = [p \in Procs |->
                   IF p = "A" THEN [IdleInv EXCEPT !.pc = "ParseURL", !.url = url]
                   ELSE IdleInv]
    /\ runs = 1
    /\ prev = NoPrev

ParseNext == ParseURL("A")

ParseSpec == ParseInit /\ [][ParseNext]_vars

(***************************************************************************)
(* Specification of the naming step alone: the pull request has just been  *)
(* fetched, for a wider set of numbers, base refs and pinned SHAs.         *)
(***************************************************************************)
PrNumbers == {1, 7, 42, 100}
BaseRefs == {"main", "develop", "release/1.0"}
\* no pinned SHA, a full one, and an abbreviated one shorter than [:8]
PinnedShas == {None, HeadSha2, <<"c", "0", "d", "e">>}

\* the state of process_pr when _get_pr_info has returned (line 570)
NameInit ==
    /\ repos = {TargetRepoName("org", "widget")}
    /\ branches = << >>
    /\ pulls = << >>
    /\ \E n \in PrNumbers, ref \in BaseRefs, sha \in PinnedShas,
          head \in {HeadSha, CiSha} :
          inv = [p \in Procs |->
                   IF p = "A"
                   THEN [IdleInv EXCEPT
                           !.pc = "ResolveCommits",
                           !.owner = "org", !.repo = "widget",
                           !.pr_number = n,
                           !.target_commit_sha = sha,
                           !.target_repo_name = TargetRepoName("org", "widget"),
                           !.pr_info = PrInfo(ref, head, <<OrgWidget>>),
                           !.trace = <<"ParseURL", "CheckRepo", "FetchPRInfo">>]
                   ELSE IdleInv]
    /\ runs = 1
    /\ prev = NoPrev

NameNext == ResolveCommits("A")

NameSpec == NameInit /\ [][NameNext]_vars

(***************************************************************************)
(* Specification of the mirror repository's naming and provisioning: two   *)
(* invocations of process_pr, for pull requests of repositories whose      *)
(* owner or name may hold a hyphen, each up to the provisioning of its     *)
(* mirror repository.                                                      *)
(***************************************************************************)
MirrorInit ==
    /\ repos = {}
    /\ branches = << >>
    /\ pulls = << >>
    /\ \E a \in MirrorUrls, b \in MirrorUrls :
          inv = [p \in Procs |->
                   [IdleInv EXCEPT !.pc = "ParseURL",
                                   !.url = IF p = "A" THEN a ELSE b]]
    /\ runs = 2
    /\ prev = NoPrev

MirrorRun(p) ==
    \/ ParseURL(p)
    \/ \E net \in BOOLEAN : CheckRepo(p, net)
    \/ \E net \in BOOLEAN : CreateRepo(p, net)

MirrorNext == MirrorRun("A") \/ MirrorRun("B")

MirrorSpec == MirrorInit /\ [][MirrorNext]_vars

(***************************************************************************)
(* Properties.                                                             *)
(***************************************************************************)
InTrace(p, name) == \E i \in 1..Len(inv[p].trace) : inv[p].trace[i] = name

Materialized(p) == InTrace(p, "CreateBaseBranch") \/ InTrace(p, "CreatePRBranch")

BothEnsured(p) ==
    /\ inv[p].base_step \in {"exists", "created"}
    /\ inv[p].pr_step \in {"exists", "created"}

MainKey(p) == BranchKey(inv[p].target_repo_name, inv[p].main_branch_name)
PrKey(p) == BranchKey(inv[p].target_repo_name, inv[p].pr_branch_name)

\* invocation p has returned, and it ran against the reference and the pull
\* request metadata of the invocation before it, which returned success
SecondRunDone(p) ==
    /\ prev.valid
    /\ inv[p].pc = "Done"
    /\ inv[p].url = prev.url
    /\ inv[p].pr_info = prev.pr_info

\* after the second run the two mirror branches have the tips the first run
\* left, and there is at most one mirror pull request between them
SameMirror(p) ==
    /\ \A k \in {MainKey(p), PrKey(p)} :
          /\ k \in DOMAIN prev.branches
          /\ k \in DOMAIN branches
          /\ branches[k] = prev.branches[k]
    /\ Cardinality({i \in 1..Len(pulls) :
                       pulls[i] = PullRequestData(inv[p].target_repo_name,
                                                  inv[p].pr_branch_name,
                                                  inv[p].main_branch_name)}) <= 1

\* C1, as stated: a second run against the same pull request reference and
\* metadata, after a successful first run, leaves the same two branch tips
\* and at most one mirror pull request, and makes no materialization call.
C1_Original ==
    \A p \in Procs : SecondRunDone(p) => SameMirror(p) /\ ~Materialized(p)

\* C2, as stated: a mirror branch that exists is never deleted and its tip
\* never changes, whatever the runs (runs whose branch-existence check goes
\* unanswered included).
C2_BranchesUntouched ==
    [][\A k \in DOMAIN branches :
          k \in DOMAIN branches' /\ branches'[k] = branches[k]]_vars

\* C3: a run that got past ParseURL, EnsureRepo and FetchPRInfo reports
\* success exactly when both branch-ensure steps succeeded, whatever the
\* create-pull-request step answered.
C3_SuccessIffBothEnsured ==
    \A p \in Procs :
        Returned(p) /\ InTrace(p, "FetchPRInfo") /\ inv[p].failed # "FetchPRInfo"
            => (inv[p].result <=> BothEnsured(p))

\* a run that reports success although its create-pull-request call failed
C3_Witness ==
    \E p \in Procs :
        /\ inv[p].pc = "Done"
        /\ inv[p].request.sent
        /\ ~inv[p].request.ok
        /\ inv[p].result

FirstIndex(p, name) ==
    CHOOSE i \in 1..Len(inv[p].trace) :
        /\ inv[p].trace[i] = name
        /\ \A j \in 1..(i - 1) : inv[p].trace[j] # name

\* C4: a run that reached the base-branch step has, when it returns, also
\* attempted the PR-branch step (the existence check and, if it found no
\* branch, the materialization), after the base-branch step and whether or
\* not that one failed; no failure is reported before.
C4_BothBranchStepsAttempted ==
    \A p \in Procs :
        /\ Returned(p) /\ InTrace(p, "CheckBaseBranch")
              => /\ inv[p].pc = "Done"
                 /\ inv[p].base_step # "none"
                 /\ InTrace(p, "CheckPRBranch")
                 /\ FirstIndex(p, "CheckBaseBranch") < FirstIndex(p, "CheckPRBranch")
                 /\ inv[p].pr_step \in {"exists", "created", "failed"}
        /\ InTrace(p, "CreateBaseBranch") /\ InTrace(p, "CheckPRBranch")
              => FirstIndex(p, "CreateBaseBranch") < FirstIndex(p, "CheckPRBranch")

\* a run whose base branch could not be made and whose PR-branch
\* materialization was attempted all the same
C4_Witness ==
    \E p \in Procs :
        /\ inv[p].pc = "Done"
        /\ inv[p].base_step = "failed"
        /\ InTrace(p, "CreatePRBranch")

\* C5: a create-pull-request call is sent only by a run whose two
\* branch-ensure steps succeeded, with the PR-state branch as head and the
\* base-state branch as base; a run in which one of them failed sends none.
C5_PullRequestOnlyAfterBoth ==
    \A p \in Procs :
        /\ inv[p].request.sent \/ InTrace(p, "OpenPullRequest")
              => /\ BothEnsured(p)
                 /\ inv[p].request.sent
                 /\ inv[p].request.data.repo = inv[p].target_repo_name
                 /\ inv[p].request.data.head = inv[p].pr_branch_name
                 /\ inv[p].request.data.base = inv[p].main_branch_name
        /\ inv[p].pc = "OpenPullRequest" => BothEnsured(p)
        /\ \A i \in 1..Len(pulls) :
              /\ BranchKey(pulls[i].repo, pulls[i].head) \in DOMAIN branches
              /\ BranchKey(pulls[i].repo, pulls[i].base) \in DOMAIN branches

\* a run that created the mirror pull request
C5_Witness ==
    \E p \in Procs :
        /\ inv[p].request.sent
        /\ inv[p].request.status = "201"
        /\ inv[p].pr_step = "created"

BranchSteps == {"CheckBaseBranch", "CreateBaseBranch", "CheckPRBranch",
                "CreatePRBranch", "OpenPullRequest"}

\* C6: a failure of ParseURL, of the repository creation or of the fetch of
\* the pull request ends the run in Error: it returns failure, and the
\* failing step is the last one it runs (no branch check, no materialization
\* and no create-pull-request call follows).
C6_FatalFailures ==
    \A p \in Procs :
        /\ inv[p].failed \in {"ParseURL", "CreateRepo", "FetchPRInfo"}
              => /\ inv[p].pc = "Error"
                 /\ ~inv[p].result
                 /\ inv[p].trace[Len(inv[p].trace)] = inv[p].failed
                 /\ \A s \in BranchSteps : ~InTrace(p, s)
                 /\ ~inv[p].request.sent
                 /\ inv[p].mat = NoMat
        /\ InTrace(p, "ParseURL") /\ ~ParsePrUrl(inv[p].url).ok
              => inv[p].failed = "ParseURL"

\* a run ended by a repository creation that was not answered 201
C6_Witness ==
    \E p \in Procs : inv[p].pc = "Error" /\ inv[p].failed = "CreateRepo"

IsFork(info) ==
    /\ info.head.repo # << >>
    /\ FullName(info.head.repo[1]) # FullName(info.base.repo)

\* C7, as stated: for a fork-based pull request the source repository the
\* orchestrator passes to the fromBase materializer is the one the Commit
\* Locator returned (the head repository), not the one of the reference.
C7_ForkContentFromHeadRepo ==
    \A p \in Procs :
        inv[p].mat.kind = "fromBase" /\ IsFork(inv[p].pr_info)
            => /\ inv[p].mat.owner = inv[p].commit_owner
               /\ inv[p].mat.repo = inv[p].commit_repo

\* C8: the Commit Locator returns the head repository's owner and name when
\* the head and base full names differ and the base repository's when they
\* are equal, and the pinned SHA when one is given, else the head SHA.
C8_CommitLocator ==
    \A p \in Procs :
        InTrace(p, "ResolveCommits") /\ inv[p].failed # "ResolveCommits"
            => LET info == inv[p].pr_info
                   head == info.head.repo[1]
               IN  /\ FullName(head) # FullName(info.base.repo)
                        => /\ inv[p].commit_owner = head.owner
                           /\ inv[p].commit_repo = head.name
                   /\ FullName(head) = FullName(info.base.repo)
                        => /\ inv[p].commit_owner = info.base.repo.owner
                           /\ inv[p].commit_repo = info.base.repo.name
                   /\ inv[p].target_commit_sha # None
                        => inv[p].pr_sha = inv[p].target_commit_sha
                   /\ inv[p].target_commit_sha = None
                        => inv[p].pr_sha = info.head.sha

\* the locator applied to a fork-based pull request with a pinned SHA
C8_Witness ==
    \E p \in Procs :
        /\ InTrace(p, "ResolveCommits")
        /\ inv[p].failed = ""
        /\ IsFork(inv[p].pr_info)
        /\ inv[p].target_commit_sha # None
        /\ inv[p].commit_owner = "alice"
        /\ inv[p].pr_sha = HeadSha2

\* the state right after a successful fromBase materialization by p
FromBaseDone(p) == inv[p].mat.kind = "fromBase" /\ inv[p].mat.ok

\* C9, as stated: after every successful fromBase materialization the first
\* parent of the PR-state branch's tip is the commit that was the tip of the
\* base-state branch.
C9_Original ==
    \A p \in Procs :
        FromBaseDone(p) =>
            /\ PrKey(p) \in DOMAIN branches
            /\ branches[PrKey(p)].parents # << >>
            /\ branches[PrKey(p)].parents[1] = inv[p].mat.base_tip[1]

\* C9, amended: after a successful fromBase materialization that made a
\* commit, the tip of the PR-state branch has exactly one parent, the tip of
\* the base-state branch; when the content was identical to the base
\* branch's tree no commit is made, and the tip of the PR-state branch is the
\* tip of the base-state branch itself.
C9_ParentLinkage ==
    \A p \in Procs :
        FromBaseDone(p) =>
            /\ PrKey(p) \in DOMAIN branches
            /\ MainKey(p) \in DOMAIN branches
            /\ inv[p].mat.base_tip = <<branches[MainKey(p)]>>
            /\ IF inv[p].mat.noop
               THEN branches[PrKey(p)] = branches[MainKey(p)]
               ELSE branches[PrKey(p)].parents = <<branches[MainKey(p)]>>

\* a PR-state branch made as a child commit of the base-state branch
C9_Witness ==
    \E p \in Procs :
        /\ FromBaseDone(p)
        /\ ~inv[p].mat.noop
        /\ branches[PrKey(p)].parents = <<branches[MainKey(p)]>>
        /\ branches[PrKey(p)].tree = RemoveGithubFolder(HeadTree)

\* the state right after a fromBase materialization by p whose commit step
\* reported nothing to commit
FromBaseNoop(p) == inv[p].mat.kind = "fromBase" /\ inv[p].mat.noop

Ran(p, step) == \E i \in 1..Len(inv[p].mat.steps) : inv[p].mat.steps[i] = step

\* C10, as stated: when the commit step of fromBase reports nothing to
\* commit, no commit is made, the branch is pushed, the materialization
\* returns success and the branch exists at the remote afterwards.
C10_Original ==
    \A p \in Procs :
        FromBaseNoop(p) =>
            /\ Ran(p, "push")
            /\ inv[p].mat.ok
            /\ inv[p].mat.commit = inv[p].mat.base_tip[1]
            /\ CheckBranchExists(inv[p].target_repo_name,
                                 inv[p].pr_branch_name, TRUE)

\* C10, amended: when the commit step of fromBase reports nothing to commit,
\* no commit is made and the push is still attempted; the materialization
\* returns success unless that push fails, and after a success the branch
\* exists at the remote with the base branch's tip as its tip.
C10_NoopStillPushed ==
    \A p \in Procs :
        FromBaseNoop(p) =>
            /\ Ran(p, "push")
            /\ inv[p].pr_step = (IF inv[p].mat.ok THEN "created" ELSE "failed")
            /\ inv[p].mat.ok
                  => /\ inv[p].mat.commit = inv[p].mat.base_tip[1]
                     /\ CheckBranchExists(inv[p].target_repo_name,
                                          inv[p].pr_branch_name, TRUE)
                     /\ branches[PrKey(p)] = branches[MainKey(p)]
            /\ ~inv[p].mat.ok
                  => inv[p].mat.steps[Len(inv[p].mat.steps)] = "push"

\* a branch made by the no-op path: pushed at the base branch's tip
C10_Witness ==
    \E p \in Procs :
        /\ FromBaseNoop(p)
        /\ inv[p].mat.ok
        /\ inv[p].result
        /\ branches[PrKey(p)] = branches[MainKey(p)]

\* invocation p is about to make the base-state branch from a source commit
\* whose tree, once the .github folder is removed, is empty
OrphanNothingStaged(p) ==
    /\ inv[p].pc = "CreateBaseBranch"
    /\ HasCommit(inv[p].owner, inv[p].repo, inv[p].main_sha)
    /\ NewTree(inv[p].owner, inv[p].repo, inv[p].main_sha) = {}

\* C11, as stated: an orphan materialization with nothing staged to commit
\* is no error: with no outside failure it returns success and the branch
\* exists at the remote afterwards.
C11_OrphanNoopSucceeds ==
    \A p \in Procs :
        OrphanNothingStaged(p) =>
            LET m == OrphanCall(p, NoFail, Now)
            IN  /\ m.ok
                /\ MainKey(p) \in DOMAIN m.branches

\* the tip of every branch of the mirror organization has no .github entry
NoGithubFolder(tree) == \A e \in tree : e[1] # GithubFolder

\* C12: in every reachable state the tree at the tip of every mirror branch
\* (made by the orphan or the fromBase variant, the nothing-to-commit case
\* included) has no .github folder, and neither has any commit under it.
C12_NoGithubFolder ==
    \A k \in DOMAIN branches :
        /\ NoGithubFolder(branches[k].tree)
        /\ \A i \in 1..Len(branches[k].parents) :
              NoGithubFolder(branches[k].parents[i].tree)

\* both kinds of branch made from source commits that hold a .github folder:
\* one by a child commit, one by the nothing-to-commit path
C12_Witness ==
    \E p \in Procs :
        /\ FromBaseDone(p)
        /\ \E e \in SourceCommits(inv[p].mat.owner, inv[p].mat.repo)[inv[p].mat.commit_sha] :
              e[1] = GithubFolder
        /\ \E e \in SourceCommits(inv[p].owner, inv[p].repo)[inv[p].main_sha] :
              e[1] = GithubFolder
        /\ branches[PrKey(p)].tree # {}
        /\ branches[MainKey(p)].tree # {}

\* the string holds /pull/ followed by a digit somewhere
HasPullNumber(url) ==
    \E i \in 1..Len(url) :
        /\ i + Len(PullSeg) <= Len(url)
        /\ SubSeq(url, i, i + Len(PullSeg) - 1) = PullSeg
        /\ url[i + Len(PullSeg)] \in Digits

\* C13: a run on a reference string without /pull/<number> fails at parsing
\* and returns failure, and parsing is the only step it runs: no repository
\* check or creation, no fetch, no branch check, no materialization and no
\* create-pull-request call.
C13_MalformedRejected ==
    \A p \in Procs :
        InTrace(p, "ParseURL") /\ ~HasPullNumber(inv[p].url)
            => /\ inv[p].pc = "Error"
               /\ ~inv[p].result
               /\ inv[p].failed = "ParseURL"
               /\ inv[p].trace = <<"ParseURL">>
               /\ inv[p].mat = NoMat
               /\ ~inv[p].request.sent

\* a run on .../pull/ with no number, ended at parsing, in a mirror
\* organization that earlier runs have filled
C13_Witness ==
    \E p \in Procs :
        /\ inv[p].pc = "Error"
        /\ inv[p].failed = "ParseURL"
        /\ inv[p].url = UrlHead \o Chars42WithoutNumber
        /\ repos # {}

\* the text between the slashes of s
RECURSIVE Split(_)
Split(s) ==
    LET first == TakeUntil(s, {"/"})
    IN  IF Len(first) = Len(s) THEN <<s>>
        ELSE <<first>> \o Split(Drop(s, Len(first) + 1))

AllIn(s, C) == s # << >> /\ \A i \in 1..Len(s) : s[i] \in C

\* the whole string has the shape
\* https://github.com/<owner>/<repo>/pull/<number>[/commits/<sha>], the number
\* a positive integer and the SHA lowercase hex
WellFormed(url) ==
    LET seg == Split(url)
    IN  /\ Len(seg) \in {7, 9}
        /\ seg[1] = <<"h", "t", "t", "p", "s", ":">>
        /\ seg[2] = << >>
        /\ seg[3] = <<"g", "i", "t", "h", "u", "b", ".", "c", "o", "m">>
        /\ seg[4] # << >>
        /\ seg[5] # << >>
        /\ seg[6] = <<"p", "u", "l", "l">>
        /\ AllIn(seg[7], Digits)
        /\ ParseInt(seg[7]) > 0
        /\ Len(seg) = 9 =>
              /\ seg[8] = <<"c", "o", "m", "m", "i", "t", "s">>
              /\ AllIn(seg[9], HexChars)

\* C14, as stated: the URL Resolver accepts exactly the well-formed strings;
\* a string with characters after the number or the SHA, with a /commits/
\* segment that is not lowercase hex, or with the number 0 fails to parse.
C14_AcceptsExactlyShape ==
    \A p \in Procs :
        InTrace(p, "ParseURL")
            => (inv[p].failed # "ParseURL" <=> WellFormed(Strip(inv[p].url)))

\* invocation p has computed the two branch names
Named(p) == InTrace(p, "ResolveCommits") /\ inv[p].failed = ""

\* C15: the base-state branch is named B-N and the PR-state branch pr-N, or
\* pr-N-<first 8 characters of S> when a SHA S is pinned, for the base ref B
\* and the number N of the pull request; nothing else enters the names.
C15_NamingDeterminism ==
    \A p \in Procs :
        Named(p) =>
            LET B == inv[p].pr_info.base.ref
                N == ToString(inv[p].pr_number)
                S == inv[p].target_commit_sha
            IN  /\ inv[p].main_branch_name = B \o "-" \o N
                /\ S = None => inv[p].pr_branch_name = "pr-" \o N
                /\ S # None =>
                      inv[p].pr_branch_name
                          = "pr-" \o N \o "-"
                              \o Join([i \in 1..(IF Len(S) < 8 THEN Len(S) ELSE 8)
                                         |-> S[i]])
                /\ inv[p].pr_number = 7 /\ B = "develop" /\ S = HeadSha2
                      => /\ inv[p].main_branch_name = "develop-7"
                         /\ inv[p].pr_branch_name = "pr-7-c0de0000"

\* names computed for a pinned SHA that [:8] cuts
C15_Witness ==
    \E p \in Procs :
        /\ Named(p)
        /\ inv[p].main_branch_name = "release/1.0-100"
        /\ inv[p].pr_branch_name = "pr-100-c0de0000"
        /\ inv[p].pr_info.head.sha = CiSha

\* C16: the Pull-Request Opener succeeds on a 201 and on a 422 whose message
\* contains "already exists" (in any letter case), and fails on a 422 with
\* another message, on every other status and when no response arrives.
C16_OpenerIdempotent ==
    \A p \in Procs :
        inv[p].request.sent =>
            LET r == inv[p].request.response
                named == \E i \in 1..Len(r.message) :
                            /\ i + 13 <= Len(r.message)
                            /\ Lower(SubSeq(r.message, i, i + 13)) = AlreadyExists
            IN  /\ r.status_code = 201 => inv[p].request.ok
                /\ r.status_code = 422 /\ named => inv[p].request.ok
                /\ r.status_code = 422 /\ ~named => ~inv[p].request.ok
                /\ r.status_code \notin {201, 422} => ~inv[p].request.ok
                /\ r = Response(422, MsgAlreadyExists) => inv[p].request.ok
                /\ r = Response(422, MsgValidationFailed) => ~inv[p].request.ok

\* a second run whose create-pull-request call is answered 422 "already
\* exists" for the pull request the first run made, and counts as success
C16_Witness ==
    \E p \in Procs :
        /\ inv[p].request.sent
        /\ inv[p].request.response = Response(422, MsgAlreadyExists)
        /\ inv[p].request.ok
        /\ PullRequestExists(inv[p].request.data)

\* C17, as stated: the create-repository request follows an existence check
\* that did not return 200, and once the mirror repository exists the
\* provisioning step lets the run proceed: no run ends at the repository
\* creation while the repository is there.
C17_ProvisioningIdempotent ==
    \A p \in Procs :
        /\ inv[p].pc = "CreateRepo"
              => inv[p].trace[Len(inv[p].trace)] = "CheckRepo"
        /\ inv[p].failed = "CreateRepo"
              => inv[p].target_repo_name \notin repos

IsPrefix(s, t) == Len(s) <= Len(t) /\ SubSeq(t, 1, Len(s)) = s

\* invocation p takes a materialization step, which fails
MaterializationFails(p) ==
    /\ inv[p].pc \in {"CreateBaseBranch", "CreatePRBranch"}
    /\ inv'[p].pc # inv[p].pc
    /\ ~inv'[p].mat.ok

\* C18: a materialization that fails has run the steps up to the failing one
\* and none after it, so it has not pushed unless the push is what failed,
\* and it leaves every ref of the mirror organization as it was; a
\* materialization succeeds only when every step ran; fromBase with no base
\* branch at the remote fails at the checkout of the base branch.
C18_FailedMaterializationAborts ==
    [][\A p \in Procs :
          LET m     == inv'[p].mat
              order == IF m.kind = "orphan" THEN OrphanSteps ELSE FromBaseSteps
          IN  /\ MaterializationFails(p)
                    => /\ branches' = branches
                       /\ IsPrefix(m.steps, order)
                       /\ m.steps # << >>
                       /\ \A i \in 1..(Len(m.steps) - 1) : m.steps[i] # "push"
                       /\ m.commit = NoCommit
              /\ inv[p].pc \in {"CreateBaseBranch", "CreatePRBranch"}
                    /\ inv'[p].pc # inv[p].pc /\ m.ok
                    => m.steps = order
              /\ inv[p].pc = "CreatePRBranch" /\ inv'[p].pc # inv[p].pc
                    /\ MainKey(p) \notin DOMAIN branches
                    => /\ ~m.ok
                       /\ IsPrefix(m.steps, <<"clone", "checkout">>)
                       /\ PrKey(p) \in DOMAIN branches'
                             => PrKey(p) \in DOMAIN branches]_vars

\* a fromBase materialization that found no base branch and stopped at the
\* checkout, with no PR-state branch made
C18_Witness ==
    \E p \in Procs :
        /\ inv[p].mat.kind = "fromBase"
        /\ ~inv[p].mat.ok
        /\ inv[p].mat.steps = <<"clone", "checkout">>
        /\ inv[p].mat.base_tip = << >>
        /\ PrKey(p) \notin DOMAIN branches

\* C19, as stated: when two runs for the same source repository both send
\* the create-repository request, the one that is answered 422 because the
\* other created the repository first goes on to the branch steps: it does
\* not end in failure at the repository creation.
C19_CreateRaceTolerated ==
    \A p, q \in Procs :
        /\ p # q
        /\ inv[p].target_repo_name = inv[q].target_repo_name
        /\ InTrace(p, "CreateRepo") /\ InTrace(q, "CreateRepo")
        /\ inv[q].failed = ""
        => /\ inv[p].failed # "CreateRepo"
           /\ inv[p].pc # "Error"

\* runs p and q were made for the same pull request, found the mirror
\* repository present, and have both returned
RacedOnBranches(p, q) ==
    /\ p # q
    /\ Returned(p) /\ Returned(q)
    /\ inv[p].url = inv[q].url
    /\ inv[p].pr_info = inv[q].pr_info
    /\ ~InTrace(p, "CreateRepo") /\ ~InTrace(q, "CreateRepo")
    /\ InTrace(p, "CheckBaseBranch") /\ InTrace(q, "CheckBaseBranch")
    /\ inv[p].main_branch_name # inv[p].pr_branch_name

\* C20, as stated: of two runs racing on the same pull request, with the
\* mirror repository present, at most one materializes and pushes each
\* mirror branch, and neither fails at a branch the other one created.
C20_BranchRaceGuarded ==
    \A p, q \in Procs :
        RacedOnBranches(p, q) =>
            /\ ~(inv[p].base_step = "created" /\ inv[q].base_step = "created")
            /\ ~(inv[p].pr_step = "created" /\ inv[q].pr_step = "created")
            /\ ~(inv[p].base_step = "failed" /\ inv[q].base_step = "created")
            /\ ~(inv[p].pr_step = "failed" /\ inv[q].pr_step = "created")
            /\ inv[q].result /\ inv[q].base_step = "created" => inv[p].result

\* C21, as stated: the pull request is fetched before the Repository
\* Provisioner acts, so a create-repository request is sent only by a run
\* that has fetched the pull request, and a run whose fetch fails has sent
\* none.
C21_FetchBeforeProvision ==
    \A p \in Procs :
        /\ InTrace(p, "CreateRepo")
              => /\ InTrace(p, "FetchPRInfo")
                 /\ FirstIndex(p, "FetchPRInfo") < FirstIndex(p, "CreateRepo")
        /\ inv[p].failed = "FetchPRInfo" => ~InTrace(p, "CreateRepo")

\* C22, as stated: whenever the orchestrator invokes the fromBase
\* materializer, the base-state branch exists in the mirror repository.
C22_Original ==
    \A p \in Procs :
        inv[p].pc = "CreatePRBranch" => MainKey(p) \in DOMAIN branches

\* C22, amended: when the orchestrator invokes the fromBase materializer
\* after a base-branch step that succeeded (the branch was found or made),
\* the base-state branch exists in the mirror repository; after a
\* base-branch step that failed it invokes fromBase all the same, and that
\* materialization fails when the base-state branch is absent.
C22_BaseExistsUnlessStepFailed ==
    \A p \in Procs :
        /\ inv[p].pc = "CreatePRBranch"
              => /\ inv[p].base_step \in {"exists", "created", "failed"}
                 /\ inv[p].base_step \in {"exists", "created"}
                       => MainKey(p) \in DOMAIN branches
        /\ inv[p].mat.kind = "fromBase" /\ inv[p].mat.base_tip = << >>
              => /\ inv[p].base_step = "failed"
                 /\ ~inv[p].mat.ok

\* fromBase about to be invoked on a base-state branch this run has made
C22_Witness ==
    \E p \in Procs :
        /\ inv[p].pc = "CreatePRBranch"
        /\ inv[p].base_step = "created"
        /\ MainKey(p) \in DOMAIN branches

NoStepTwice(p) ==
    \A i, j \in 1..Len(inv[p].trace) :
        inv[p].trace[i] = inv[p].trace[j] => i = j

\* C24: within one run every orchestrator step (parse, repository check,
\* repository creation, fetch, each branch check, each materialization, the
\* create-pull-request call) is executed at most once, and, every external
\* call returning, a run that has started reaches Done or Error.
C24_NoRetriesAndTermination ==
    /\ [](\A p \in Procs : NoStepTwice(p))
    /\ \A p \in Procs : Running(p) ~> Returned(p)

\* a run that went through every step and reached Done
C24_Witness ==
    \E p \in Procs :
        /\ inv[p].pc = "Done"
        /\ inv[p].trace = <<"ParseURL", "CheckRepo", "CreateRepo", "FetchPRInfo",
                            "ResolveCommits", "CheckBaseBranch",
                            "CreateBaseBranch", "CheckPRBranch",
                            "CreatePRBranch", "OpenPullRequest">>

\* C25: the base-state branch name and the PR-state branch name the
\* orchestrator computes for a pull request are different, whatever the
\* base ref and whether or not the reference is pinned.
C25_DistinctBranchNames ==
    \A p \in Procs :
        Named(p) => inv[p].main_branch_name # inv[p].pr_branch_name

\* invocation p has its mirror repository: found or created
Provisioned(p) == inv[p].pc = "FetchPRInfo"

\* C26: two different source repositories (owner, repo) never get the same
\* mirror repository name, so never share one mirror repository.
C26_MirrorNameInjective ==
    \A p, q \in Procs :
        /\ Provisioned(p)
        /\ Provisioned(q)
        /\ <<inv[p].owner, inv[p].repo>> # <<inv[q].owner, inv[q].repo>>
        => inv[p].target_repo_name # inv[q].target_repo_name
=============================================================================
